---- MODULE Spec2Model ----
(***************************************************************************)
(* flux embeddings-svc (embeddings-svc/main.py): a FastAPI service that    *)
(* loads one SentenceTransformer at import time and serves GET /health and *)
(* POST /embed, the encode call being guarded by one threading.Lock.       *)
(*                                                                         *)
(* Handlers are "def" (not "async def") endpoints, so each request runs    *)
(* on its own thread; a thread is modelled by its position pc[w] in the    *)
(* handler and its locals (req, clean_texts, vectors).                     *)
(* A string is a sequence of characters; a float is an integer.            *)
(***************************************************************************)
EXTENDS Integers, Sequences, FiniteSets

\* ------------------------------------------------------------- bounds
\* Handler threads of the concurrent specifications.
NumWorkers == 2
\* Inputs of the concurrent specification Spec: batches of at most
\* ConcMaxTexts strings, each one of ShortStrings.
ConcMaxTexts == 1
\* Inputs of the single-handler specification SpecSeq.
SeqMaxTexts == 2
SeqMaxStrLen == 3
\* Inputs of the two-request specification SpecPair: one text per request.
PairMaxStrLen == 3
\* Length of a model vector (384 for all-MiniLM-L6-v2).
VecDim == 2

Workers == 1..NumWorkers

\* ------------------------------------------------------------ strings
\* What str.strip() removes, and one character it keeps.
Whitespace == {" "}
Chars == Whitespace \cup {"a"}

StringsUpTo(n) == UNION {[1..k -> Chars] : k \in 0..n}
Batches(maxTexts, strings) == UNION {[1..k -> strings] : k \in 0..maxTexts}

\* One string of each kind the validation tells apart: empty, blank, text.
ShortStrings == {<<>>, <<" ">>, <<"a">>}
ConcInputs == Batches(ConcMaxTexts, ShortStrings)
SeqInputs == Batches(SeqMaxTexts, StringsUpTo(SeqMaxStrLen))
PairInputs == {<<s>> : s \in StringsUpTo(PairMaxStrLen)}
\* For progress only a request's kind matters: the empty batch, a rejected
\* batch, a valid batch.
LiveInputs == {<<>>, << <<" ">> >>, << <<"a">> >>}

RECURSIVE LStrip(_)
LStrip(s) ==
    IF Len(s) > 0 /\ Head(s) \in Whitespace THEN LStrip(Tail(s)) ELSE s

RECURSIVE RStrip(_)
RStrip(s) ==
    IF Len(s) > 0 /\ s[Len(s)] \in Whitespace
    THEN RStrip(SubSeq(s, 1, Len(s) - 1))
    ELSE s

\* A plausible slip: t.lstrip() in place of t.strip().
StripLeadingOnly(s) == LStrip(s)

\* str.strip(): leading and trailing whitespace removed, the inside kept.
Strip(s) == RStrip(LStrip(s))

\* Python truthiness of a str.
Truthy(s) == Len(s) > 0

RECURSIVE CleanTextsNoStripTest(_)
\* A plausible slip: [t.strip() for t in req.texts if t].
CleanTextsNoStripTest(texts) ==
    IF Len(texts) = 0 THEN <<>>
    ELSE (IF Truthy(Head(texts)) THEN <<Strip(Head(texts))>> ELSE <<>>)
         \o CleanTextsNoStripTest(Tail(texts))

RECURSIVE CleanTexts(_)
\* [t.strip() for t in req.texts if t and t.strip()]
CleanTexts(texts) ==
    IF Len(texts) = 0 THEN <<>>
    ELSE (IF Truthy(Head(texts)) /\ Truthy(Strip(Head(texts)))
          THEN <<Strip(Head(texts))>> ELSE <<>>)
         \o CleanTexts(Tail(texts))

\* A plausible slip: the length check dropped, blanks silently filtered.
NeverMismatch(texts, clean) == FALSE

\* len(clean_texts) != len(req.texts)
LengthMismatch(texts, clean) == Len(clean) # Len(texts)

\* ------------------------------------------------------------- model
\* The model is deterministic: a text's vector depends on the text alone.
Code(c) == IF c \in Whitespace THEN 1 ELSE 2

RECURSIVE Feature(_, _, _)
\* Component k of the vector of s: the codes at positions i = k (mod VecDim).
Feature(s, i, k) ==
    IF i > Len(s) THEN 0
    ELSE (IF (i - 1) % VecDim = k - 1 THEN Code(s[i]) ELSE 0)
         + Feature(s, i + 1, k)

ModelVector(s) == [k \in 1..VecDim |-> Feature(s, 1, k)]

\* model.encode(..., convert_to_numpy=True): an array of shape (N, dim),
\* row i the vector of sentence i, stored row-major.
Encode(batch) ==
    [shape |-> <<Len(batch), VecDim>>,
     data |-> [j \in 1..(Len(batch) * VecDim) |->
                 ModelVector(batch[((j - 1) \div VecDim) + 1])[((j - 1) % VecDim) + 1]]]

\* ndarray.tolist(): the rows as a list of lists.
ToList(v) ==
    [i \in 1..v.shape[1] |->
        [k \in 1..v.shape[2] |-> v.data[(i - 1) * v.shape[2] + k]]]

NoVectors == [shape |-> <<0, 0>>, data |-> <<>>]

\* ------------------------------------------------------------- state
VARIABLES
    phase,        \* "start" | "serving" | "failed": the module's import
    path_is_dir,  \* os.path.isdir(MODEL_PATH), fixed by the environment
    model,        \* the module-level model handle
    loads,        \* how many times SentenceTransformer(...) was constructed
    model_lock,   \* Unlocked, or the thread inside "with model_lock"
    pc,           \* each handler thread's position
    route,        \* the endpoint a thread serves
    req,          \* req.texts
    clean_texts,  \* the local clean_texts
    vectors,      \* the local vectors
    response      \* what the client receives

vars == <<phase, path_is_dir, model, loads, model_lock, pc, route, req,
          clean_texts, vectors, response>>

server == <<phase, path_is_dir, model, loads>>

NoModel == "none"
Unlocked == 0
NoResponse == [status |-> 0, body |-> [detail |-> ""]]

HealthPayload == [status |-> "ok", model |-> "all-MiniLM-L6-v2", dimensions |-> 384]
BadRequest == [status |-> 400, body |-> [detail |-> "texts must be non-empty strings"]]
ServerError == [status |-> 500, body |-> [detail |-> "Internal Server Error"]]
Ok(body) == [status |-> 200, body |-> body]

\* Positions between __enter__ and __exit__ of "with model_lock".
InWith == {"encode", "exit_ok", "exit_exc"}

Init ==
    /\ phase = "start"
    /\ path_is_dir \in BOOLEAN
    /\ model = NoModel
    /\ loads = 0
    /\ model_lock = Unlocked
    /\ pc = [w \in Workers |-> "idle"]
    /\ route = [w \in Workers |-> "none"]
    /\ req = [w \in Workers |-> <<>>]
    /\ clean_texts = [w \in Workers |-> <<>>]
    /\ vectors = [w \in Workers |-> NoVectors]
    /\ response = [w \in Workers |-> NoResponse]

\* ----------------------------------------------------------- loading
\* A plausible slip: the two branches swapped.
LoadedFromSwapped(isdir) == IF isdir THEN "MODEL_NAME" ELSE "MODEL_PATH"

\* Which argument SentenceTransformer gets.
LoadedFrom(isdir) == IF isdir THEN "MODEL_PATH" ELSE "MODEL_NAME"

\* The module body: the constructor returns, or raises and the import (and
\* with it the process) fails before app exists.
LoadModel ==
    /\ phase = "start"
    /\ loads' = loads + 1
    /\ \E ok \in BOOLEAN :
          IF ok
          THEN model' = LoadedFrom(path_is_dir) /\ phase' = "serving"
          ELSE model' = model /\ phase' = "failed"
    /\ UNCHANGED <<path_is_dir, model_lock, pc, route, req, clean_texts,
                   vectors, response>>

\* ---------------------------------------------------------- handlers
\* A plausible slip: health taking the model lock.
HealthUnderLock(w) ==
    /\ phase = "serving"
    /\ pc[w] = "idle"
    /\ model_lock = Unlocked
    /\ pc' = [pc EXCEPT ![w] = "done"]
    /\ route' = [route EXCEPT ![w] = "health"]
    /\ response' = [response EXCEPT ![w] = Ok(HealthPayload)]
    /\ UNCHANGED <<server, model_lock, req, clean_texts, vectors>>

\* GET /health
Health(w) ==
    /\ phase = "serving"
    /\ pc[w] = "idle"
    /\ pc' = [pc EXCEPT ![w] = "done"]
    /\ route' = [route EXCEPT ![w] = "health"]
    /\ response' = [response EXCEPT ![w] = Ok(HealthPayload)]
    /\ UNCHANGED <<server, model_lock, req, clean_texts, vectors>>

\* POST /embed arrives with body {texts: texts}, texts one of inputs.
Receive(w, inputs) ==
    /\ phase = "serving"
    /\ pc[w] = "idle"
    /\ pc' = [pc EXCEPT ![w] = "check_empty"]
    /\ route' = [route EXCEPT ![w] = "embed"]
    /\ \E texts \in inputs : req' = [req EXCEPT ![w] = texts]
    /\ UNCHANGED <<server, model_lock, clean_texts, vectors, response>>

\* A plausible slip: the empty batch not short-circuited.
CheckEmptyNoShortCircuit(w) ==
    /\ pc[w] = "check_empty"
    /\ pc' = [pc EXCEPT ![w] = "validate"]
    /\ UNCHANGED <<server, model_lock, route, req, clean_texts, vectors, response>>

\* if not req.texts: return EmbedResponse(embeddings=[])
CheckEmpty(w) ==
    /\ pc[w] = "check_empty"
    /\ IF Len(req[w]) = 0
       THEN /\ pc' = [pc EXCEPT ![w] = "done"]
            /\ response' = [response EXCEPT ![w] = Ok([embeddings |-> <<>>])]
       ELSE /\ pc' = [pc EXCEPT ![w] = "validate"]
            /\ UNCHANGED response
    /\ UNCHANGED <<server, model_lock, route, req, clean_texts, vectors>>

\* A plausible slip: the validation moved inside "with model_lock".
ValidateUnderLock(w) ==
    /\ pc[w] = "validate"
    /\ model_lock = Unlocked
    /\ clean_texts' = [clean_texts EXCEPT ![w] = CleanTexts(req[w])]
    /\ IF LengthMismatch(req[w], CleanTexts(req[w]))
       THEN /\ pc' = [pc EXCEPT ![w] = "done"]
            /\ response' = [response EXCEPT ![w] = BadRequest]
       ELSE /\ pc' = [pc EXCEPT ![w] = "acquire"]
            /\ UNCHANGED response
    /\ UNCHANGED <<server, model_lock, route, req, vectors>>

\* clean_texts = [...]; if len(clean_texts) != len(req.texts): raise 400
Validate(w) ==
    /\ pc[w] = "validate"
    /\ clean_texts' = [clean_texts EXCEPT ![w] = CleanTexts(req[w])]
    /\ IF LengthMismatch(req[w], CleanTexts(req[w]))
       THEN /\ pc' = [pc EXCEPT ![w] = "done"]
            /\ response' = [response EXCEPT ![w] = BadRequest]
       ELSE /\ pc' = [pc EXCEPT ![w] = "acquire"]
            /\ UNCHANGED response
    /\ UNCHANGED <<server, model_lock, route, req, vectors>>

\* A plausible slip: the lock taken without waiting for it to be free.
AcquireWithoutLock(w) ==
    /\ pc[w] = "acquire"
    /\ pc' = [pc EXCEPT ![w] = "encode"]
    /\ model_lock' = w
    /\ UNCHANGED <<server, route, req, clean_texts, vectors, response>>

\* with model_lock: __enter__ blocks until the lock is free, then takes it.
Acquire(w) ==
    /\ pc[w] = "acquire"
    /\ model_lock = Unlocked
    /\ model_lock' = w
    /\ pc' = [pc EXCEPT ![w] = "encode"]
    /\ UNCHANGED <<server, route, req, clean_texts, vectors, response>>

\* model.encode(clean_texts, ...) returns.
EncodeReturn(w) ==
    /\ pc[w] = "encode"
    /\ model # NoModel
    /\ vectors' = [vectors EXCEPT ![w] = Encode(clean_texts[w])]
    /\ pc' = [pc EXCEPT ![w] = "exit_ok"]
    /\ UNCHANGED <<server, model_lock, route, req, clean_texts, response>>

\* model.encode(clean_texts, ...) raises.
EncodeRaise(w) ==
    /\ pc[w] = "encode"
    /\ pc' = [pc EXCEPT ![w] = "exit_exc"]
    /\ UNCHANGED <<server, model_lock, route, req, clean_texts, vectors, response>>

\* A plausible slip: acquire()/release() without try/finally, so that an
\* exception skips the release.
ReleaseOnlyOnSuccess(w) ==
    /\ pc[w] \in {"exit_ok", "exit_exc"}
    /\ IF pc[w] = "exit_ok"
       THEN /\ model_lock' = Unlocked
            /\ pc' = [pc EXCEPT ![w] = "serialize"]
            /\ UNCHANGED response
       ELSE /\ UNCHANGED model_lock
            /\ pc' = [pc EXCEPT ![w] = "done"]
            /\ response' = [response EXCEPT ![w] = ServerError]
    /\ UNCHANGED <<server, route, req, clean_texts, vectors>>

\* A plausible slip: the lock acquired and never released.
ReleaseSkipped(w) ==
    /\ pc[w] \in {"exit_ok", "exit_exc"}
    /\ UNCHANGED model_lock
    /\ IF pc[w] = "exit_ok"
       THEN /\ pc' = [pc EXCEPT ![w] = "serialize"]
            /\ UNCHANGED response
       ELSE /\ pc' = [pc EXCEPT ![w] = "done"]
            /\ response' = [response EXCEPT ![w] = ServerError]
    /\ UNCHANGED <<server, route, req, clean_texts, vectors>>

\* The end of the with block: __exit__ releases the lock on the normal path
\* and on the exception path; an exception then leaves the handler and the
\* server answers 500.
Release(w) ==
    /\ pc[w] \in {"exit_ok", "exit_exc"}
    /\ model_lock' = Unlocked
    /\ IF pc[w] = "exit_ok"
       THEN /\ pc' = [pc EXCEPT ![w] = "serialize"]
            /\ UNCHANGED response
       ELSE /\ pc' = [pc EXCEPT ![w] = "done"]
            /\ response' = [response EXCEPT ![w] = ServerError]
    /\ UNCHANGED <<server, route, req, clean_texts, vectors>>

\* return EmbedResponse(embeddings=vectors.tolist())
Respond(w) ==
    /\ pc[w] = "serialize"
    /\ response' = [response EXCEPT ![w] = Ok([embeddings |-> ToList(vectors[w])])]
    /\ pc' = [pc EXCEPT ![w] = "done"]
    /\ UNCHANGED <<server, model_lock, route, req, clean_texts, vectors>>

\* The response is sent; the thread and its locals are gone.
Finish(w) ==
    /\ pc[w] = "done"
    /\ pc' = [pc EXCEPT ![w] = "idle"]
    /\ route' = [route EXCEPT ![w] = "none"]
    /\ req' = [req EXCEPT ![w] = <<>>]
    /\ clean_texts' = [clean_texts EXCEPT ![w] = <<>>]
    /\ vectors' = [vectors EXCEPT ![w] = NoVectors]
    /\ response' = [response EXCEPT ![w] = NoResponse]
    /\ UNCHANGED <<server, model_lock>>

\* ---------------------------------------------------- specifications
Handler(w) ==
    \/ Health(w)
    \/ CheckEmpty(w)
    \/ Validate(w)
    \/ Acquire(w)
    \/ EncodeReturn(w)
    \/ EncodeRaise(w)
    \/ Release(w)
    \/ Respond(w)
    \/ Finish(w)

\* Any number of concurrent requests.
Next ==
    \/ LoadModel
    \/ \E w \in Workers : Receive(w, ConcInputs)
    \/ \E w \in Workers : Handler(w)

Spec == Init /\ [][Next]_vars

\* One request at a time, over every batch of strings within the bounds.
NextSeq ==
    \/ LoadModel
    \/ Receive(1, SeqInputs)
    \/ Handler(1)

SpecSeq == Init /\ [][NextSeq]_vars

\* Two requests side by side.
NextPair ==
    \/ LoadModel
    \/ \E w \in {1, 2} : Receive(w, PairInputs)
    \/ \E w \in {1, 2} : Handler(w)

SpecPair == Init /\ [][NextPair]_vars

\* Any number of concurrent requests, one of each kind.
NextLive ==
    \/ LoadModel
    \/ \E w \in Workers : Receive(w, LiveInputs)
    \/ \E w \in Workers : Handler(w)

\* Every thread that can take a step eventually takes one, encode
\* terminates, and a thread waiting for the lock is not passed over for
\* ever.  Clients are free never to send a request.
Fairness ==
    \A w \in Workers :
        /\ WF_vars(CheckEmpty(w))
        /\ WF_vars(Validate(w))
        /\ SF_vars(Acquire(w))
        /\ WF_vars(EncodeReturn(w) \/ EncodeRaise(w))
        /\ WF_vars(Release(w))
        /\ WF_vars(Respond(w))

SpecFair == Init /\ [][NextLive]_vars /\ Fairness

\* ------------------------------------------------------ the properties
\* What the text calls the stripped form of a string, stated without
\* str.strip(): the span from the first to the last non-whitespace character.
Solid(s) == {i \in 1..Len(s) : s[i] \notin Whitespace}
First(I) == CHOOSE i \in I : \A j \in I : i <= j
Last(I) == CHOOSE i \in I : \A j \in I : j <= i
Trimmed(s) == IF Solid(s) = {} THEN <<>> ELSE SubSeq(s, First(Solid(s)), Last(Solid(s)))
TrimmedAll(texts) == [i \in 1..Len(texts) |-> Trimmed(texts[i])]
IsBlank(s) == Solid(s) = {}

Holding == {w \in Workers : pc[w] \in InWith}
Accepted(w) == route[w] = "embed" /\ pc[w] = "done" /\ response[w].status = 200

\* C1: at most one handler is between acquiring and releasing model_lock,
\* however many /embed handlers run.
C1_MutualExclusion == Cardinality(Holding) <= 1

C1_Witness ==
    \E w1, w2 \in Workers : pc[w1] = "encode" /\ pc[w2] = "acquire"

\* C2: the lock is free exactly when no handler is inside the with block,
\* also after encode raised; a handler whose encode raised releases the
\* lock and ends with 500, without embeddings and without a second try.
C2_LockFreeOutsideWith ==
    /\ model_lock = Unlocked <=> Holding = {}
    /\ \A w \in Workers :
          response[w].status = 500 =>
             /\ pc[w] = "done"
             /\ "embeddings" \notin DOMAIN response[w].body

C2_FailureEnds ==
    \A w \in Workers :
        pc[w] = "exit_exc" /\ pc'[w] # "exit_exc" =>
            /\ pc'[w] = "done"
            /\ response'[w].status = 500
            /\ model_lock' = Unlocked

C2_ReleasedOnFailure == [](C2_LockFreeOutsideWith) /\ [][C2_FailureEnds]_vars

C2_Witness ==
    \E w1, w2 \in Workers :
        /\ pc[w1] = "done" /\ response[w1].status = 500
        /\ pc[w2] = "encode" /\ model_lock = w2

\* C3: an accepted request with N texts gets N embeddings, embedding i
\* being the model's vector of the stripped form of texts[i].
C3_OneVectorPerText ==
    \A w \in Workers :
        Accepted(w) =>
            LET e == response[w].body.embeddings IN
            /\ DOMAIN e = 1..Len(req[w])
            /\ \A i \in 1..Len(req[w]) : e[i] = ModelVector(Trimmed(req[w][i]))

C3_Witness ==
    \E w \in Workers :
        /\ Accepted(w)
        /\ Len(req[w]) = 2
        /\ Trimmed(req[w][1]) # Trimmed(req[w][2])
        /\ Trimmed(req[w][1]) # req[w][1]
        /\ response[w].body.embeddings[1] # response[w].body.embeddings[2]

\* C4: a non-empty batch with one blank entry is rejected whole with 400
\* and the fixed message straight after validation, never reaching the lock
\* or encode; a non-empty batch without blank entries is never rejected.
C4_AllOrNothing ==
    \A w \in Workers :
        (route[w] = "embed" /\ Len(req[w]) > 0 /\ pc[w] \notin {"check_empty", "validate"}) =>
            IF \E i \in 1..Len(req[w]) : IsBlank(req[w][i])
            THEN /\ pc[w] = "done"
                 /\ response[w].status = 400
                 /\ response[w].body = [detail |-> "texts must be non-empty strings"]
                 /\ model_lock # w
                 /\ vectors[w] = NoVectors
            ELSE response[w].status # 400

C4_Witness ==
    \E w \in Workers :
        /\ pc[w] = "done" /\ response[w].status = 400
        /\ Len(req[w]) = 2
        /\ ~IsBlank(req[w][1])
        /\ IsBlank(req[w][2]) /\ Len(req[w][2]) > 0

\* C5: an empty batch is answered 200 with no embeddings in one step that
\* needs neither the lock nor encode, whoever holds the lock.
C5_EmptyShortCircuits ==
    \A w \in Workers :
        (route[w] = "embed" /\ Len(req[w]) = 0) =>
            /\ pc[w] \in {"check_empty", "done"}
            /\ pc[w] = "check_empty" => ENABLED CheckEmpty(w)
            /\ pc[w] = "done" => response[w] = [status |-> 200, body |-> [embeddings |-> <<>>]]
            /\ model_lock # w
            /\ vectors[w] = NoVectors

C5_Witness ==
    \E w1, w2 \in Workers :
        /\ route[w1] = "embed" /\ Len(req[w1]) = 0 /\ pc[w1] = "done"
        /\ response[w1].status = 200
        /\ model_lock = w2 /\ pc[w2] = "encode"

\* C6: a health request can always be served at once, whatever the lock's
\* state, answers 200 with the fixed payload, and changes neither the lock
\* nor the model.
C6_HealthState ==
    \A w \in Workers :
        /\ (phase = "serving" /\ pc[w] = "idle") => ENABLED Health(w)
        /\ route[w] = "health" =>
              /\ pc[w] = "done"
              /\ response[w].status = 200
              /\ response[w].body =
                    [status |-> "ok", model |-> "all-MiniLM-L6-v2", dimensions |-> 384]
              /\ model_lock # w

C6_HealthStep ==
    \A w \in Workers :
        (pc[w] = "idle" /\ route'[w] = "health") => UNCHANGED <<model_lock, model>>

C7_LoadState ==
    /\ loads <= 1
    /\ (\E w \in Workers : pc[w] # "idle") => (phase = "serving" /\ model # NoModel)
    /\ phase = "serving" =>
          /\ loads = 1
          /\ model = (IF path_is_dir THEN "MODEL_PATH" ELSE "MODEL_NAME")
    /\ phase = "failed" => model = NoModel
    /\ phase = "start" => loads = 0 /\ model = NoModel

C7_LoadStep ==
    /\ model # NoModel => model' = model
    /\ phase = "failed" => phase' = "failed"
    /\ phase = "serving" => phase' = "serving"

C7_LoadedOnceBeforeServing == [](C7_LoadState) /\ [][C7_LoadStep]_vars

C7_Witness ==
    /\ phase = "serving" /\ path_is_dir /\ model = "MODEL_PATH"
    /\ \E w1, w2 \in Workers : route[w1] = "health" /\ pc[w2] = "encode"

\* C8: encode gets the batch with every entry stripped, so two accepted
\* requests that agree after stripping (equal requests among them) get
\* the same embeddings.
C8_TrimmedBeforeEncode ==
    /\ \A w \in Workers :
          pc[w] \in InWith \cup {"serialize"} => clean_texts[w] = TrimmedAll(req[w])
    /\ \A w1, w2 \in Workers :
          (Accepted(w1) /\ Accepted(w2) /\ TrimmedAll(req[w1]) = TrimmedAll(req[w2])) =>
              response[w1].body.embeddings = response[w2].body.embeddings

C8_Witness ==
    /\ Accepted(1) /\ Accepted(2)
    /\ Len(req[1][1]) = Len(req[2][1]) + 2
    /\ Trimmed(req[1][1]) = req[2][1]
    /\ response[1] = response[2]

\* C9: a handler holds the lock at no position outside the with block, and
\* validation and serialization can proceed whatever the lock's state.
C9_LockOnlyAroundEncode ==
    \A w \in Workers :
        /\ model_lock = w => pc[w] \in InWith
        /\ pc[w] = "validate" => ENABLED Validate(w)
        /\ pc[w] = "serialize" => ENABLED Respond(w)

C9_Witness ==
    \E w1, w2 \in Workers :
        /\ pc[w1] = "done" /\ response[w1].status = 400
        /\ pc[w2] = "exit_ok" /\ model_lock = w2

\* C10: under the fairness of SpecFair a handler waiting for the lock gets
\* it, an encode once begun is only ever left by returning or raising, every
\* /embed request ends with a response, and whenever a handler waits for a
\* held lock, the holder is a handler inside the with block.
C10_NoLostLock ==
    \A w \in Workers :
        (pc[w] = "acquire" /\ model_lock # Unlocked) =>
            \E h \in Workers : model_lock = h /\ pc[h] \in InWith

C10_EncodeRuns ==
    \A w \in Workers :
        pc[w] = "encode" => pc'[w] \in {"encode", "exit_ok", "exit_exc"}

====
